---- MODULE Spec2Model ----
(***************************************************************************)
(* A model of qifparse's parser (src/qifparse/parser.py): the number and   *)
(* date format inference, the record decoders and the chunk driver of      *)
(* QifParser.parse.                                                        *)
(*                                                                         *)
(* Text is modelled as it is: a string is a sequence of one-character      *)
(* strings, a text is the sequence of its lines (the pieces between        *)
(* "\n").  The alphabet of the modelled inputs is digits, letters, space   *)
(* and the punctuation  - . , / ' [ ] ! : ^ $ ; the library calls          *)
(* int(), Decimal(), datetime() and re.split() are modelled on that        *)
(* alphabet.                                                               *)
(***************************************************************************)
EXTENDS Integers, Sequences, FiniteSets, TLC

(***************************************************************************)
(* Characters and strings                                                  *)
(***************************************************************************)
Digits == {"0", "1", "2", "3", "4", "5", "6", "7", "8", "9"}

Letters == {"a", "b", "c", "d", "e", "f", "g", "h", "i", "j", "k", "l", "m",
            "n", "o", "p", "q", "r", "s", "t", "u", "v", "w", "x", "y", "z",
            "A", "B", "C", "D", "E", "F", "G", "H", "I", "J", "K", "L", "M",
            "N", "O", "P", "Q", "R", "S", "T", "U", "V", "W", "X", "Y", "Z"}

\* \w of the re module: [A-Za-z0-9_]
WordChars == Digits \cup Letters \cup {"_"}

DigitVal(c) ==
    CASE c = "0" -> 0 [] c = "1" -> 1 [] c = "2" -> 2 [] c = "3" -> 3
      [] c = "4" -> 4 [] c = "5" -> 5 [] c = "6" -> 6 [] c = "7" -> 7
      [] c = "8" -> 8 [] c = "9" -> 9

IsDigits(s) == \A i \in 1..Len(s) : s[i] \in Digits

RECURSIVE DigitsValue(_)
\* the number written by a sequence of digits (0 for the empty sequence)
DigitsValue(s) ==
    IF s = <<>> THEN 0
    ELSE 10 * DigitsValue(SubSeq(s, 1, Len(s) - 1)) + DigitVal(s[Len(s)])

RECURSIVE Pow10(_)
Pow10(n) == IF n = 0 THEN 1 ELSE 10 * Pow10(n - 1)

Contains(s, c) == \E i \in 1..Len(s) : s[i] = c

\* s.startswith(p)
StartsWith(s, p) == Len(s) >= Len(p) /\ SubSeq(s, 1, Len(p)) = p

\* s[1:]
Tail1(s) == SubSeq(s, 2, Len(s))

\* s[1:-1]
Mid1(s) == SubSeq(s, 2, Len(s) - 1)

\* s[2:-1]
Mid2(s) == SubSeq(s, 3, Len(s) - 1)

RECURSIVE SplitOn(_, _)
\* s.split(c) for a one-character separator c: the pieces between the
\* occurrences of c, empty pieces included
SplitOn(s, c) ==
    IF ~Contains(s, c) THEN <<s>>
    ELSE LET i == CHOOSE k \in 1..Len(s) :
                      s[k] = c /\ \A j \in 1..(k - 1) : s[j] /= c
         IN  <<SubSeq(s, 1, i - 1)>> \o SplitOn(SubSeq(s, i + 1, Len(s)), c)

RECURSIVE ReplaceChar(_, _, _)
\* s.replace(c, r) for a one-character c
ReplaceChar(s, c, r) ==
    IF s = <<>> THEN <<>>
    ELSE (IF s[1] = c THEN r ELSE <<s[1]>>) \o ReplaceChar(Tail(s), c, r)

RECURSIVE StripLeft(_)
StripLeft(s) == IF s /= <<>> /\ s[1] = " " THEN StripLeft(Tail(s)) ELSE s

RECURSIVE StripRight(_)
StripRight(s) ==
    IF s /= <<>> /\ s[Len(s)] = " " THEN StripRight(SubSeq(s, 1, Len(s) - 1))
    ELSE s

\* s.strip()
Strip(s) == StripLeft(StripRight(s))

RECURSIVE SkipNonWord(_)
SkipNonWord(s) ==
    IF s /= <<>> /\ s[1] \notin WordChars THEN SkipNonWord(Tail(s)) ELSE s

RECURSIVE ReSplitNonWord(_, _)
\* re.split(r'\W+', s): cur is the piece being collected
ReSplitNonWord(s, cur) ==
    IF s = <<>> THEN <<cur>>
    ELSE IF s[1] \in WordChars THEN ReSplitNonWord(Tail(s), Append(cur, s[1]))
    ELSE <<cur>> \o ReSplitNonWord(SkipNonWord(s), <<>>)

(***************************************************************************)
(* Results: a returned value or a raised exception                         *)
(***************************************************************************)
Ok(v) == [exc |-> "none", msg |-> "", val |-> <<v>>]

Raise(e, m) == [exc |-> e, msg |-> m, val |-> <<>>]

IsOk(r) == r.exc = "none"

ValOf(r) == r.val[1]

\* int(s) on the modelled alphabet: surrounding blanks, an optional sign,
\* at least one digit; anything else is a ValueError (ok = FALSE)
PyInt(s) ==
    LET t == Strip(s)
        signed == t /= <<>> /\ t[1] \in {"-", "+"}
        d == IF signed THEN Tail(t) ELSE t
    IN  IF d /= <<>> /\ IsDigits(d)
        THEN [ok |-> TRUE,
              n |-> IF signed /\ t[1] = "-" THEN 0 - DigitsValue(d)
                    ELSE DigitsValue(d)]
        ELSE [ok |-> FALSE, n |-> 0]

RECURSIVE Normalize(_, _)
\* a decimal value coefficient / 10^scale, without trailing zeros, so that
\* two values are equal exactly when Decimal's == holds
Normalize(c, scale) ==
    IF scale > 0 /\ c % 10 = 0 THEN Normalize(c \div 10, scale - 1)
    ELSE <<c, scale>>

\* Decimal("%s.%s" % (int_p, frac_p)) for a string int_p: an optional sign,
\* digits, a point, digits, with at least one digit; anything else raises
\* InvalidOperation
DecimalOfText(int_p, frac_p) ==
    LET t == StripLeft(int_p)
        signed == t /= <<>> /\ t[1] \in {"-", "+"}
        d == IF signed THEN Tail(t) ELSE t
        f == StripRight(frac_p)
        mag == DigitsValue(d) * Pow10(Len(f)) + DigitsValue(f)
    IN  IF IsDigits(d) /\ IsDigits(f) /\ Len(d) + Len(f) > 0
        THEN Ok(Normalize(IF signed /\ t[1] = "-" THEN 0 - mag ELSE mag, Len(f)))
        ELSE Raise("InvalidOperation", "")

\* Decimal("%s.%s" % (n, frac_p)) for an integer n: str(n) carries the sign
\* only when n < 0
DecimalOfInt(n, frac_p) ==
    LET f == StripRight(frac_p)
        a == IF n < 0 THEN 0 - n ELSE n
        mag == a * Pow10(Len(f)) + DigitsValue(f)
    IN  IF IsDigits(f)
        THEN Ok(Normalize(IF n < 0 THEN 0 - mag ELSE mag, Len(f)))
        ELSE Raise("InvalidOperation", "")

(***************************************************************************)
(* Numbers: parseQifNumber and guessNumberFormat                           *)
(***************************************************************************)
\* The separators are one-character strings; thousands_sep "" is "none".
BlocksOk(thousands) ==
    /\ Len(thousands[1]) <= 3
    /\ \A i \in 2..Len(thousands) : Len(thousands[i]) = 3

\* the second half of parseQifNumber: the check of the integer part and the
\* recomposed Decimal
NumberOfParts(int_p, frac_p, thousands_sep) ==
    IF thousands_sep /= ""
    THEN IF ~BlocksOk(SplitOn(int_p, thousands_sep))
         THEN Raise("QifParserInvalidNumber", "Something wrong with thousands separator")
         ELSE DecimalOfText(ReplaceChar(int_p, thousands_sep, <<>>), frac_p)
    ELSE IF ~PyInt(int_p).ok
         THEN Raise("QifParserInvalidNumber", "Invalid integer part")
         ELSE DecimalOfInt(PyInt(int_p).n, frac_p)

\* int_p, frac_p = qnumber.split(decimal_sep)
NumberOfSplit(parts, thousands_sep) ==
    IF Len(parts) /= 2
    THEN Raise("QifParserInvalidNumber", "Something wrong with decimal separator")
    ELSE NumberOfParts(parts[1], parts[2], thousands_sep)

parseQifNumber(qnumber, decimal_sep, thousands_sep) ==
    IF decimal_sep = thousands_sep
    THEN Raise("QifParserException", "decimal_sep is the same as thousands_sep")
    ELSE IF Contains(qnumber, decimal_sep)
    THEN NumberOfSplit(SplitOn(qnumber, decimal_sep), thousands_sep)
    ELSE NumberOfParts(qnumber, <<"0">>, thousands_sep)

possible_num_sep == << <<".", "">>, <<".", ",">>, <<",", "">>, <<",", ".">> >>

\* the inner loop of guessNumberFormat for one sample: the candidates that
\* are left after it
NumberSurvivors(possible, sample) ==
    SelectSeq(possible,
              LAMBDA p : parseQifNumber(sample, p[1], p[2]).exc
                            \notin {"QifParserInvalidNumber", "InvalidOperation"})

RECURSIVE NumberSurvivorsAll(_, _)
NumberSurvivorsAll(possible, samples) ==
    IF samples = <<>> THEN possible
    ELSE NumberSurvivorsAll(NumberSurvivors(possible, Head(samples)), Tail(samples))

\* the decision of guessNumberFormat once every sample has been tried;
\* next is whether iter(...).next() exists (Python 2) or not (Python 3)
NumberDecision(possible, next) ==
    LET possible_decimal_seps == {possible[i][1] : i \in 1..Len(possible)}
        possible_thousands_seps ==
            {possible[i][2] : i \in 1..Len(possible)} \ {""}
    IN  IF Len(possible) = 0
        THEN Raise("QifParserInvalidNumber", "Inconsistent or invalid number values")
        ELSE IF Len(possible) > 1
        THEN IF Cardinality(possible_decimal_seps) = 1
                /\ Cardinality(possible_thousands_seps) = 1
             THEN IF next
                  THEN Ok(<<CHOOSE d \in possible_decimal_seps : TRUE,
                            CHOOSE t \in possible_thousands_seps : TRUE>>)
                  ELSE Raise("AttributeError", "no attribute next")
             ELSE Raise("QifParserInvalidNumber",
                        "It is not possible to guess the number format: please specify")
        ELSE Ok(possible[1])

guessNumberFormat(samples, next) ==
    NumberDecision(NumberSurvivorsAll(possible_num_sep, samples), next)

(***************************************************************************)
(* Dates: parseQifDateTime and guessDateFormat                             *)
(***************************************************************************)
IsLeap(y) == (y % 4 = 0 /\ y % 100 /= 0) \/ y % 400 = 0

DaysInMonth(y, m) ==
    IF m \in {4, 6, 9, 11} THEN 30
    ELSE IF m = 2 THEN (IF IsLeap(y) THEN 29 ELSE 28)
    ELSE 31

\* datetime(y, m, d) raises ValueError unless this holds
ValidDate(y, m, d) ==
    /\ y >= 1 /\ y <= 9999
    /\ m >= 1 /\ m <= 12
    /\ d >= 1 /\ d <= DaysInMonth(y, m)

\* the normalization of parseQifDateTime, for a qdate of at least 3
\* characters or one whose second-to-last character is the apostrophe
NormalizeDate(qdate) ==
    IF qdate[Len(qdate) - 1] = "'"
    THEN Strip(ReplaceChar(qdate, "'", <<"/", "2", "0", "0">>))
    ELSE IF qdate[Len(qdate) - 2] = "'"
    THEN Strip(ReplaceChar(qdate, "'", <<"/", "2", "0">>))
    ELSE Strip(ReplaceChar(qdate, "'", <<"/">>))

\* datetime(y, m, d)
DateOf(y, m, d) ==
    IF ValidDate(y, m, d) THEN Ok(<<y, m, d>>)
    ELSE Raise("QifParserInvalidDate", "Invalid date")

\* the second try block of parseQifDateTime, on int(n1), int(n2), int(n3)
DateOfInts(n1, n2, n3, date_format) ==
    IF date_format \notin {"dmy", "mdy", "ymd"}
    THEN Raise("QifParserInvalidDate", "unsupported date_format")
    ELSE IF ~(n1.ok /\ n2.ok /\ n3.ok)
    THEN Raise("QifParserInvalidDate", "Invalid date")
    ELSE IF date_format = "dmy" THEN DateOf(n3.n, n2.n, n1.n)
    ELSE IF date_format = "mdy" THEN DateOf(n3.n, n1.n, n2.n)
    ELSE DateOf(n1.n, n2.n, n3.n)

\* (n1, n2, n3) = re.split(r'\W+', norm_qdate)
DateOfSplit(n, date_format) ==
    IF Len(n) /= 3
    THEN Raise("QifParserInvalidDate", "Invalid date")
    ELSE DateOfInts(PyInt(n[1]), PyInt(n[2]), PyInt(n[3]), date_format)

parseQifDateTime(qdate, date_format) ==
    IF Len(qdate) < 2 \/ (Len(qdate) < 3 /\ qdate[Len(qdate) - 1] /= "'")
    THEN Raise("IndexError", "string index out of range")
    ELSE DateOfSplit(ReSplitNonWord(NormalizeDate(qdate), <<>>), date_format)

possible_date_formats == <<"dmy", "mdy", "ymd">>

\* the inner loop of guessDateFormat for one sample: the candidates that are
\* left after it
DateSurvivors(possible, sample) ==
    SelectSeq(possible,
              LAMBDA f : parseQifDateTime(sample, f).exc /= "QifParserInvalidDate")

\* whether the inner loop lets another exception than QifParserInvalidDate
\* through for this sample
DateSampleEscapes(possible, sample) ==
    \E i \in 1..Len(possible) :
        parseQifDateTime(sample, possible[i]).exc \notin {"none", "QifParserInvalidDate"}

\* the decision of guessDateFormat once every sample has been tried
DateDecision(possible) ==
    IF Len(possible) = 0
    THEN Raise("QifParserInvalidDate", "Inconsistent or invalid date values")
    ELSE IF Len(possible) > 1
    THEN Raise("QifParserInvalidDate",
               "It is not possible to guess the date format: please specify")
    ELSE Ok(possible[1])

RECURSIVE GuessDateFrom(_, _)
GuessDateFrom(possible, samples) ==
    IF samples = <<>> THEN DateDecision(possible)
    ELSE IF DateSampleEscapes(possible, Head(samples))
    THEN Raise("IndexError", "string index out of range")
    ELSE GuessDateFrom(DateSurvivors(possible, Head(samples)), Tail(samples))

guessDateFormat(samples) == GuessDateFrom(possible_date_formats, samples)

(***************************************************************************)
(* Records.  An unset field (None) is <<>>, a set field is <<value>>.      *)
(***************************************************************************)
AmountSplit ==
    [kind |-> "AmountSplit", category |-> <<>>, to_account |-> <<>>,
     memo |-> <<>>, amount |-> <<>>, address |-> <<>>]

Transaction ==
    [kind |-> "Transaction", date |-> <<>>, num |-> <<>>, amount |-> <<>>,
     cleared |-> <<>>, payee |-> <<>>, memo |-> <<>>,
     first_payment_date |-> <<>>, years_of_loan |-> <<>>,
     num_payments_done |-> <<>>, periods_per_year |-> <<>>,
     interests_rate |-> <<>>, current_loan_balance |-> <<>>,
     original_loan_amount |-> <<>>, address |-> <<>>, category |-> <<>>,
     to_account |-> <<>>, splits |-> <<>>]

MemorizedTransaction ==
    [kind |-> "MemorizedTransaction", amount |-> <<>>, cleared |-> <<>>,
     payee |-> <<>>, memo |-> <<>>, mtype |-> <<>>, address |-> <<>>,
     category |-> <<>>, to_account |-> <<>>, splits |-> <<>>]

Investment ==
    [kind |-> "Investment", date |-> <<>>, amount |-> <<>>, action |-> <<>>,
     security |-> <<>>, price |-> <<>>, quantity |-> <<>>, cleared |-> <<>>,
     memo |-> <<>>, first_line |-> <<>>, to_account |-> <<>>,
     amount_transfer |-> <<>>, commission |-> <<>>]

Account ==
    [kind |-> "Account", name |-> <<>>, description |-> <<>>,
     account_type |-> <<>>, credit_limit |-> <<>>, balance_date |-> <<>>,
     balance_amount |-> <<>>]

Category ==
    [kind |-> "Category", name |-> <<>>, description |-> <<>>,
     expense_category |-> <<>>, income_category |-> <<>>,
     tax_related |-> <<>>, budget_amount |-> <<>>,
     tax_schedule_info |-> <<>>]

Class == [kind |-> "Class", name |-> <<>>, description |-> <<>>]

(***************************************************************************)
(* Record decoders: one operator per decoder for one line of the chunk,    *)
(* and the loop over the lines.  fmt is [date_format, decimal_sep,         *)
(* thousands_sep].                                                         *)
(***************************************************************************)
\* curItem.address = curItem.address or []; curItem.address.append(v)
AppendAddress(item, v) ==
    [item EXCEPT !.address =
        <<(IF item.address = <<>> THEN <<>> ELSE item.address[1]) \o <<v>>>>]

\* the 'L' branch: a bracketed value is a transfer account
SetCategory(item, cat) ==
    IF StartsWith(cat, <<"[">>)
    THEN [item EXCEPT !.to_account = <<Mid1(cat)>>]
    ELSE [item EXCEPT !.category = <<cat>>]

\* the 'S' branch: a new split, filled like the 'L' branch
OpenSplit(item, cat) ==
    [item EXCEPT !.splits = Append(item.splits, SetCategory(AmountSplit, cat))]

\* the 'E' branch: the memo of the last split, without its last character
SplitMemo(item, line) ==
    IF item.splits = <<>> THEN Raise("IndexError", "list index out of range")
    ELSE Ok([item EXCEPT !.splits[Len(item.splits)].memo = <<Mid1(line)>>])

\* the '$' branch: the amount of the last split, parsed from line[1:-1]
SetSplitAmount(item, a) ==
    IF IsOk(a)
    THEN Ok([item EXCEPT !.splits[Len(item.splits)].amount = <<ValOf(a)>>])
    ELSE a

SplitAmount(item, line, fmt) ==
    IF item.splits = <<>> THEN Raise("IndexError", "list index out of range")
    ELSE SetSplitAmount(item, parseQifNumber(Mid1(line), fmt.decimal_sep,
                                             fmt.thousands_sep))

\* a field set from a parsed number or date: the parse's exception, or the
\* item with the field set
SetParsed(item, field, r) ==
    IF IsOk(r) THEN Ok([item EXCEPT ![field] = <<ValOf(r)>>]) ELSE r

\* a numeric field of a record
SetNumber(item, field, v, fmt) ==
    SetParsed(item, field, parseQifNumber(v, fmt.decimal_sep, fmt.thousands_sep))

\* a date field of a record
SetDate(item, field, v, fmt) ==
    SetParsed(item, field, parseQifDateTime(v, fmt.date_format))

SetText(item, field, v) == Ok([item EXCEPT ![field] = <<v>>])

Skipped(line, header) == line = <<>> \/ StartsWith(line, header)

TransactionLine(curItem, line, fmt) ==
    IF Skipped(line, <<"!", "T", "y", "p", "e">>) THEN Ok(curItem)
    ELSE LET t == line[1]
             v == Tail1(line)
         IN  CASE t = "D" -> SetDate(curItem, "date", v, fmt)
               [] t = "N" -> SetText(curItem, "num", v)
               [] t = "T" -> SetNumber(curItem, "amount", v, fmt)
               [] t = "C" -> SetText(curItem, "cleared", v)
               [] t = "P" -> SetText(curItem, "payee", v)
               [] t = "M" -> SetText(curItem, "memo", v)
               [] t = "1" -> SetText(curItem, "first_payment_date", v)
               [] t = "2" -> SetText(curItem, "years_of_loan", v)
               [] t = "3" -> SetText(curItem, "num_payments_done", v)
               [] t = "4" -> SetText(curItem, "periods_per_year", v)
               [] t = "5" -> SetText(curItem, "interests_rate", v)
               [] t = "6" -> SetText(curItem, "current_loan_balance", v)
               [] t = "7" -> SetText(curItem, "original_loan_amount", v)
               [] t = "A" -> Ok(AppendAddress(curItem, v))
               [] t = "L" -> Ok(SetCategory(curItem, v))
               [] t = "S" -> Ok(OpenSplit(curItem, v))
               [] t = "E" -> SplitMemo(curItem, line)
               [] t = "$" -> SplitAmount(curItem, line, fmt)
               [] OTHER -> Ok(curItem)

MemorizedTransactionLine(curItem, line, fmt) ==
    IF Skipped(line, <<"!", "T", "y", "p", "e", ":", "M", "e", "m", "o", "r", "i", "z", "e", "d">>)
    THEN Ok(curItem)
    ELSE LET t == line[1]
             v == Tail1(line)
         IN  CASE t = "T" -> SetNumber(curItem, "amount", v, fmt)
               [] t = "C" -> SetText(curItem, "cleared", v)
               [] t = "P" -> SetText(curItem, "payee", v)
               [] t = "M" -> SetText(curItem, "memo", v)
               [] t = "K" -> SetText(curItem, "mtype", v)
               [] t = "A" -> Ok(AppendAddress(curItem, v))
               [] t = "L" -> Ok(SetCategory(curItem, v))
               [] t = "S" -> Ok(OpenSplit(curItem, v))
               [] t = "E" -> SplitMemo(curItem, line)
               [] t = "$" -> SplitAmount(curItem, line, fmt)
               [] OTHER -> Ok(curItem)

InvestmentLine(curItem, line, fmt) ==
    IF Skipped(line, <<"!", "T", "y", "p", "e">>) THEN Ok(curItem)
    ELSE LET t == line[1]
             v == Tail1(line)
         IN  CASE t = "D" -> SetDate(curItem, "date", v, fmt)
               [] t = "T" -> SetNumber(curItem, "amount", v, fmt)
               [] t = "N" -> SetText(curItem, "action", v)
               [] t = "Y" -> SetText(curItem, "security", v)
               [] t = "I" -> SetNumber(curItem, "price", v, fmt)
               [] t = "Q" -> SetNumber(curItem, "quantity", v, fmt)
               [] t = "C" -> SetText(curItem, "cleared", v)
               [] t = "M" -> SetText(curItem, "memo", v)
               [] t = "P" -> SetText(curItem, "first_line", v)
               [] t = "L" -> SetText(curItem, "to_account", Mid2(line))
               [] t = "$" -> SetNumber(curItem, "amount_transfer", v, fmt)
               [] t = "O" -> SetNumber(curItem, "commission", v, fmt)
               [] OTHER -> Ok(curItem)

AccountLine(curItem, line, fmt) ==
    IF Skipped(line, <<"!", "A", "c", "c", "o", "u", "n", "t">>) THEN Ok(curItem)
    ELSE LET t == line[1]
             v == Tail1(line)
         IN  CASE t = "N" -> SetText(curItem, "name", v)
               [] t = "D" -> SetText(curItem, "description", v)
               [] t = "T" -> SetText(curItem, "account_type", v)
               [] t = "L" -> SetText(curItem, "credit_limit", v)
               [] t = "/" -> SetDate(curItem, "balance_date", v, fmt)
               [] t = "$" -> SetText(curItem, "balance_amount", v)
               [] OTHER -> Ok(curItem)

CategoryLine(curItem, line, fmt) ==
    IF Skipped(line, <<"!", "T", "y", "p", "e">>) THEN Ok(curItem)
    ELSE LET t == line[1]
             v == Tail1(line)
         IN  CASE t = "E" -> Ok([curItem EXCEPT !.expense_category = <<TRUE>>])
               [] t = "I" -> Ok([curItem EXCEPT !.income_category = <<TRUE>>,
                                                !.expense_category = <<FALSE>>])
               [] t = "T" -> Ok([curItem EXCEPT !.tax_related = <<TRUE>>])
               [] t = "D" -> SetText(curItem, "description", v)
               [] t = "B" -> SetText(curItem, "budget_amount", v)
               [] t = "R" -> SetText(curItem, "tax_schedule_info", v)
               [] t = "N" -> SetText(curItem, "name", v)
               [] OTHER -> Ok(curItem)

ClassLine(curItem, line, fmt) ==
    IF Skipped(line, <<"!", "T", "y", "p", "e", ":", "C", "l", "a", "s", "s">>)
    THEN Ok(curItem)
    ELSE LET t == line[1]
             v == Tail1(line)
         IN  CASE t = "N" -> SetText(curItem, "name", v)
               [] t = "D" -> SetText(curItem, "description", v)
               [] OTHER -> Ok(curItem)

\* the field tags of each decoder
KnownTags(kind) ==
    CASE kind = "transaction" ->
            {"D", "N", "T", "C", "P", "M", "1", "2", "3", "4", "5", "6", "7",
             "A", "L", "S", "E", "$"}
      [] kind = "memorized" -> {"T", "C", "P", "M", "K", "A", "L", "S", "E", "$"}
      [] kind = "investment" ->
            {"D", "T", "N", "Y", "I", "Q", "C", "M", "P", "L", "$", "O"}
      [] kind = "account" -> {"N", "D", "T", "L", "/", "$"}
      [] kind = "category" -> {"E", "I", "T", "D", "B", "R", "N"}
      [] kind = "class" -> {"N", "D"}

\* a non-empty line whose first character is no field tag of the decoder
UnknownLine(kind, line) == line /= <<>> /\ line[1] \notin KnownTags(kind)

\* DecodeLine with a line of unknown tag ending the decoder
DecodeLineStrict(last_type, curItem, line, fmt) ==
    IF UnknownLine(last_type, line) /\ line[1] /= "!"
    THEN Raise("QifParserException", "Line not recognized")
    ELSE CASE last_type = "category" -> CategoryLine(curItem, line, fmt)
           [] last_type = "account" -> AccountLine(curItem, line, fmt)
           [] last_type = "transaction" -> TransactionLine(curItem, line, fmt)
           [] last_type = "investment" -> InvestmentLine(curItem, line, fmt)
           [] last_type = "class" -> ClassLine(curItem, line, fmt)
           [] last_type = "memorized" -> MemorizedTransactionLine(curItem, line, fmt)

\* the parsers table of parse: the line decoder of a section kind
DecodeLine(last_type, curItem, line, fmt) ==
    CASE last_type = "category" -> CategoryLine(curItem, line, fmt)
      [] last_type = "account" -> AccountLine(curItem, line, fmt)
      [] last_type = "transaction" -> TransactionLine(curItem, line, fmt)
      [] last_type = "investment" -> InvestmentLine(curItem, line, fmt)
      [] last_type = "class" -> ClassLine(curItem, line, fmt)
      [] last_type = "memorized" -> MemorizedTransactionLine(curItem, line, fmt)

\* the fresh record of a decoder
NewItem(last_type) ==
    CASE last_type = "category" -> Category
      [] last_type = "account" -> Account
      [] last_type = "transaction" -> Transaction
      [] last_type = "investment" -> Investment
      [] last_type = "class" -> Class
      [] last_type = "memorized" -> MemorizedTransaction

RECURSIVE DecodeLines(_, _, _, _)
\* the loop "for line in lines" of a decoder, from the outcome so far
\* (curItem, or an exception that ended the loop): the record after the last
\* line, or the first exception
DecodeLines(last_type, curItem, lines, fmt) ==
    IF lines = <<>> \/ ~IsOk(curItem) THEN curItem
    ELSE DecodeLines(last_type, DecodeLine(last_type, ValOf(curItem), Head(lines), fmt),
                     Tail(lines), fmt)

\* parsers[last_type](chunk, date_format, decimal_sep, thousands_sep)
Decode(last_type, chunk, fmt) ==
    DecodeLines(last_type, Ok(NewItem(last_type)), chunk, fmt)

(***************************************************************************)
(* The chunk driver of QifParser.parse                                     *)
(***************************************************************************)
NON_INVST_ACCOUNT_TYPES ==
    { <<"!", "T", "y", "p", "e", ":", "C", "a", "s", "h">>,
      <<"!", "T", "y", "p", "e", ":", "B", "a", "n", "k">>,
      <<"!", "T", "y", "p", "e", ":", "C", "c", "a", "r", "d">>,
      <<"!", "T", "y", "p", "e", ":", "C", "C", "a", "r", "d">>,
      <<"!", "T", "y", "p", "e", ":", "O", "t", "h", " ", "A">>,
      <<"!", "T", "y", "p", "e", ":", "O", "t", "h", " ", "L">>,
      <<"!", "T", "y", "p", "e", ":", "I", "n", "v", "o", "i", "c", "e">> }

\* the section kind a first line establishes, "" when it is no header
HeaderKind(first_line) ==
    IF first_line = <<"!", "T", "y", "p", "e", ":", "C", "a", "t">> THEN "category"
    ELSE IF first_line = <<"!", "A", "c", "c", "o", "u", "n", "t">> THEN "account"
    ELSE IF first_line \in NON_INVST_ACCOUNT_TYPES THEN "transaction"
    ELSE IF first_line = <<"!", "T", "y", "p", "e", ":", "I", "n", "v", "s", "t">>
    THEN "investment"
    ELSE IF first_line = <<"!", "T", "y", "p", "e", ":", "C", "l", "a", "s", "s">>
    THEN "class"
    ELSE IF first_line = <<"!", "T", "y", "p", "e", ":", "M", "e", "m", "o", "r", "i", "z", "e", "d">>
    THEN "memorized"
    ELSE ""

\* the kinds whose header is recorded in transactions_header
TransactionKinds == {"transaction", "investment", "memorized"}

RECURSIVE SplitChunks(_, _, _, _)
\* data.split('\n^\n') on the lines of data: a line "^" that is neither the
\* first nor the last line, and does not follow a separator, ends a chunk.
\* i is the line looked at, cur the lines of the chunk being collected.
SplitChunks(lines, i, cur, afterSep) ==
    IF i > Len(lines) THEN <<cur>>
    ELSE IF lines[i] = <<"^">> /\ i > 1 /\ i < Len(lines) /\ ~afterSep
    THEN <<cur>> \o SplitChunks(lines, i + 1, <<>>, TRUE)
    ELSE SplitChunks(lines, i + 1, Append(cur, lines[i]), FALSE)

\* len(data) == 0: the text of one empty line
DataIsEmpty(lines) == lines = << <<>> >>

\* "not chunk": the chunk is the empty string
ChunkIsEmpty(chunk) == chunk = << <<>> >>

RECURSIVE getSamplesFrom(_, _, _)
\* getSamples(data, data_type): the values of the lines that start with
\* data_type, outside the sections opened by an '!Account' line
getSamplesFrom(lines, data_type, skip) ==
    IF lines = <<>> THEN <<>>
    ELSE LET line == Head(lines)
             skip2 == IF StartsWith(line, <<"!", "A", "c", "c", "o", "u", "n", "t">>)
                      THEN TRUE
                      ELSE IF StartsWith(line, <<"!">>) THEN FALSE ELSE skip
         IN  (IF StartsWith(line, <<data_type>>) /\ ~skip2 THEN <<Tail1(line)>> ELSE <<>>)
             \o getSamplesFrom(Tail(lines), data_type, skip2)

getDateSamples(lines) == getSamplesFrom(lines, "D", FALSE)

getNumberSamples(lines) == getSamplesFrom(lines, "T", FALSE)

(***************************************************************************)
(* The inputs of the model of parse: texts made of these chunks            *)
(***************************************************************************)
\* an account
AccountChunk ==
    << <<"!", "A", "c", "c", "o", "u", "n", "t">>,
       <<"N", "A">>,
       <<"T", "B", "a", "n", "k">> >>

\* a transaction under its header
BankChunk ==
    << <<"!", "T", "y", "p", "e", ":", "B", "a", "n", "k">>,
       <<"D", "2", "3", "/", "1", "0", "/", "2", "0", "1", "3">>,
       <<"T", "-", "1", "2", "3", "4", ".", "5", "6">> >>

\* a transaction without a header
PlainChunk ==
    << <<"D", "1", "3", "/", "1", "0", "/", "2", "0", "1", "3">>,
       <<"T", "1", ".", "5">>,
       <<"L", "f", "o", "o", "d">> >>

\* a category
CatChunk ==
    << <<"!", "T", "y", "p", "e", ":", "C", "a", "t">>,
       <<"N", "f", "o", "o", "d">>,
       <<"E">> >>

\* a class
ClassChunk ==
    << <<"!", "T", "y", "p", "e", ":", "C", "l", "a", "s", "s">>,
       <<"N", "w", "o", "r", "k">> >>

\* an investment
InvstChunk ==
    << <<"!", "T", "y", "p", "e", ":", "I", "n", "v", "s", "t">>,
       <<"D", "1", "/", "2", "'", "1", "3">>,
       <<"Q", "1", "0">> >>

\* a memorized transaction with a split
MemorizedChunk ==
    << <<"!", "T", "y", "p", "e", ":", "M", "e", "m", "o", "r", "i", "z", "e", "d">>,
       <<"T", "5", ".", "0", "0">>,
       <<"S", "f", "o", "o", "d">>,
       <<"$", "3", ".", "0", "0">> >>

\* a chunk under an unrecognized header
BadHeaderChunk ==
    << <<"!", "O", "p", "t", "i", "o", "n", ":", "A", "u", "t", "o">>,
       <<"N", "B">> >>

\* an unrecognized '!' line inside a chunk
InnerBangChunk ==
    << <<"!", "T", "y", "p", "e", ":", "C", "a", "s", "h">>,
       <<"!", "C", "l", "e", "a", "r", ":", "A", "u", "t", "o">>,
       <<"T", "2", ".", "0", "0">> >>

\* a split detail line before any 'S' line
OrphanSplitChunk ==
    << <<"E", "m", "e", "m", "o">> >>

\* a date value of one character
ShortDateChunk ==
    << <<"D", "1">> >>

\* a category with a description
CatDescChunk ==
    << <<"!", "T", "y", "p", "e", ":", "C", "a", "t">>,
       <<"N", "f", "o", "o", "d">>,
       <<"D", "g", "r", "o", "c", "e", "r", "y">> >>

\* an investment whose quantity is written with a decimal comma
InvstQuantityChunk ==
    << <<"!", "T", "y", "p", "e", ":", "I", "n", "v", "s", "t">>,
       <<"D", "2", "3", "/", "1", "0", "/", "2", "0", "1", "3">>,
       <<"T", "-", "1", "2", "3", "4", ".", "5", "6">>,
       <<"Q", "1", ",", "5">> >>

ChunkPool ==
    {AccountChunk,
     BankChunk,
     PlainChunk,
     CatChunk,
     ClassChunk,
     InvstChunk,
     MemorizedChunk,
     BadHeaderChunk,
     InnerBangChunk,
     OrphanSplitChunk,
     ShortDateChunk,
     CatDescChunk,
     InvstQuantityChunk}

\* the most chunks of a modelled text
MaxChunks == 3

\* the sequences over S of length at most n
SeqsUpTo(S, n) == UNION {[1..k -> S] : k \in 0..n}

RECURSIVE TextOf(_)
\* the text of a sequence of chunks, each followed by its "^" line; the text
\* ends with the newline of the last "^" (or is empty)
TextOf(cs) ==
    IF cs = <<>> THEN << <<>> >>
    ELSE Head(cs) \o << <<"^">> >> \o TextOf(Tail(cs))

(***************************************************************************)
(* State                                                                   *)
(***************************************************************************)
VARIABLES
    data,                \* parse: the text read from file_handle, as lines
    date_format,         \* parse: the date_format argument, then the resolved one
    num_sep,             \* parse: the num_sep argument
    decimal_sep,         \* parse: the resolved separators
    thousands_sep,
    iter_next,           \* whether iterators have a next() method (Python 2)
    pc,                  \* parse: where the call is
    chunks,              \* parse: data.split('\n^\n')
    pos,                 \* parse: the index of the chunk the loop is at
    last_type,
    last_account,        \* 0 for None, else the index of the account in qif_obj
    transactions_header,
    qif_obj,
    raised,              \* parse: the exception raised, <<>> when none
    returned,            \* parse: the value returned, <<>> when none
    date_samples,        \* guessDateFormat: its argument
    date_possible,       \* guessDateFormat: possible_date_formats
    date_pos,            \* guessDateFormat: the index of the sample the loop is at
    date_result,         \* guessDateFormat: what it returned or raised, <<>> before
    number_samples,      \* guessNumberFormat: its argument
    number_possible,     \* guessNumberFormat: possible_num_sep
    number_pos,          \* guessNumberFormat: the index of the sample the loop is at
    number_result,       \* guessNumberFormat: what it returned or raised, <<>> before
    decoder,             \* a decoder call: the section kind of the decoder
    lines,               \* a decoder call: chunk.split('\n')
    formats,             \* a decoder call: date_format, decimal_sep, thousands_sep
    line_pos,            \* a decoder call: the index of the line the loop is at
    curItem,             \* a decoder call: the record being filled
    decoder_result,      \* a decoder call: what it returned or raised, <<>> before
    callee,              \* a call of a parsing function: the function called
    call_args,           \* a call of a parsing function: its arguments
    call_result          \* a call of a parsing function: what it returned or raised

parse_vars ==
    <<data, date_format, num_sep, decimal_sep, thousands_sep, pc,
      chunks, pos, last_type, last_account, transactions_header, qif_obj,
      raised, returned>>

date_vars == <<date_samples, date_possible, date_pos, date_result>>

number_vars == <<number_samples, number_possible, number_pos, number_result>>

decoder_vars == <<decoder, lines, formats, line_pos, curItem, decoder_result>>

call_vars == <<callee, call_args, call_result>>

vars == <<parse_vars, date_vars, number_vars, decoder_vars, call_vars, iter_next, call_vars>>

\* Qif()
Qif == [accounts |-> <<>>, transactions |-> <<>>, categories |-> <<>>, classes |-> <<>>]

\* qif_obj.add_account(item)
add_account(q, item) ==
    [q EXCEPT !.accounts = Append(@, [account |-> item, transactions |-> <<>>])]

\* last_account.add_transaction(item, header=transactions_header)
account_add_transaction(q, a, item, header) ==
    [q EXCEPT !.accounts[a].transactions = Append(@, [header |-> header, item |-> item])]

\* qif_obj.add_transaction(item, header=transactions_header)
add_transaction(q, item, header) ==
    [q EXCEPT !.transactions = Append(@, [header |-> header, item |-> item])]

add_category(q, item) == [q EXCEPT !.categories = Append(@, item)]

add_class(q, item) == [q EXCEPT !.classes = Append(@, item)]

(***************************************************************************)
(* QifParser.parse                                                         *)
(***************************************************************************)
\* no call of guessDateFormat is modelled on its own
DateIdle ==
    /\ date_samples = <<>>
    /\ date_possible = <<>>
    /\ date_pos = 0
    /\ date_result = <<>>

\* no call of guessNumberFormat is modelled on its own
NumberIdle ==
    /\ number_samples = <<>>
    /\ number_possible = <<>>
    /\ number_pos = 0
    /\ number_result = <<>>

\* no call of parseQifNumber or parseQifDateTime is modelled on its own
CallIdle ==
    /\ callee = "None"
    /\ call_args = <<>>
    /\ call_result = <<>>

\* no call of a decoder is modelled on its own
DecoderIdle ==
    /\ decoder = "None"
    /\ lines = <<>>
    /\ formats = <<>>
    /\ line_pos = 0
    /\ curItem = <<>>
    /\ decoder_result = <<>>

ParseInit ==
    /\ data \in {TextOf(cs) : cs \in SeqsUpTo(ChunkPool, MaxChunks)}
    /\ date_format \in {<<>>, <<"dmy">>, <<"mdy">>}
    /\ num_sep \in {<<>>, << <<".", "">> >>}
    /\ iter_next \in BOOLEAN
    /\ decimal_sep = ""
    /\ thousands_sep = ""
    /\ pc = "read"
    /\ chunks = <<>>
    /\ pos = 0
    /\ last_type = "None"
    /\ last_account = 0
    /\ transactions_header = <<>>
    /\ qif_obj = Qif
    /\ raised = <<>>
    /\ returned = <<>>

\* an exception leaves parse: nothing is returned
Raised(r) ==
    /\ pc' = "raised"
    /\ raised' = <<r>>

\* data = file_handle.read(); the check of the empty text
Read ==
    /\ pc = "read"
    /\ IF DataIsEmpty(data)
       THEN Raised(Raise("QifParserException", "Data is empty"))
       ELSE pc' = "date" /\ UNCHANGED raised
    /\ UNCHANGED <<data, date_format, num_sep, decimal_sep, thousands_sep,
                   iter_next, chunks, pos, last_type, last_account,
                   transactions_header, qif_obj, returned>>
    /\ UNCHANGED <<date_vars, number_vars, decoder_vars, call_vars>>

\* if not date_format: date_format = guessDateFormat(getDateSamples(data))
DateResolved(r) ==
    IF IsOk(r)
    THEN date_format' = <<ValOf(r)>> /\ pc' = "number" /\ UNCHANGED raised
    ELSE Raised(r) /\ UNCHANGED date_format

ResolveDate ==
    /\ pc = "date"
    /\ DateResolved(IF date_format = <<>> THEN guessDateFormat(getDateSamples(data))
                    ELSE Ok(date_format[1]))
    /\ UNCHANGED <<data, num_sep, decimal_sep, thousands_sep, iter_next,
                   chunks, pos, last_type, last_account, transactions_header,
                   qif_obj, returned>>
    /\ UNCHANGED <<date_vars, number_vars, decoder_vars, call_vars>>

\* the resolution of the separators, then qif_obj = Qif() and the split of
\* data into chunks
NumberResolved(r) ==
    IF IsOk(r)
    THEN /\ decimal_sep' = ValOf(r)[1]
         /\ thousands_sep' = ValOf(r)[2]
         /\ chunks' = SplitChunks(data, 1, <<>>, FALSE)
         /\ pos' = 1
         /\ pc' = "chunks"
         /\ UNCHANGED raised
    ELSE Raised(r) /\ UNCHANGED <<decimal_sep, thousands_sep, chunks, pos>>

ResolveNumber ==
    /\ pc = "number"
    /\ NumberResolved(IF num_sep = <<>>
                      THEN guessNumberFormat(getNumberSamples(data), iter_next)
                      ELSE Ok(num_sep[1]))
    /\ UNCHANGED <<data, date_format, num_sep, iter_next, last_type,
                   last_account, transactions_header, qif_obj, returned>>
    /\ UNCHANGED <<date_vars, number_vars, decoder_vars, call_vars>>

\* last_type after the header tests of the loop body
NextType(first_line, type) ==
    IF HeaderKind(first_line) /= "" THEN HeaderKind(first_line) ELSE type

\* transactions_header after the header tests of the loop body
NextHeader(first_line, header) ==
    IF HeaderKind(first_line) \in TransactionKinds THEN <<first_line>> ELSE header

\* HeaderRejected with first_line == '!' in the place of chunk.startswith('!')
HeaderRejectedWhenBare(chunk) ==
    HeaderKind(chunk[1]) = "" /\ chunk[1] = <<"!">>

\* the header tests end in the "Header not recognized" error
HeaderRejected(chunk) ==
    HeaderKind(chunk[1]) = "" /\ StartsWith(chunk[1], <<"!">>)

\* Place with the cursor cleared by every section that is not a transaction
\* section
PlaceClearingCursor(q, type, cursor, item, header) ==
    IF type = "account"
    THEN [qif |-> add_account(q, item), cursor |-> Len(q.accounts) + 1]
    ELSE IF type \in TransactionKinds
    THEN IF cursor /= 0
         THEN [qif |-> account_add_transaction(q, cursor, item, header), cursor |-> cursor]
         ELSE [qif |-> add_transaction(q, item, header), cursor |-> cursor]
    ELSE IF type = "category"
    THEN [qif |-> add_category(q, item), cursor |-> 0]
    ELSE [qif |-> add_class(q, item), cursor |-> 0]

\* the placement of a decoded item: the container and the cursor after it
Place(q, type, cursor, item, header) ==
    IF type = "account"
    THEN [qif |-> add_account(q, item), cursor |-> Len(q.accounts) + 1]
    ELSE IF type \in TransactionKinds
    THEN IF cursor /= 0
         THEN [qif |-> account_add_transaction(q, cursor, item, header), cursor |-> cursor]
         ELSE [qif |-> add_transaction(q, item, header), cursor |-> cursor]
    ELSE IF type = "category"
    THEN [qif |-> add_category(q, item), cursor |-> cursor]
    ELSE [qif |-> add_class(q, item), cursor |-> cursor]

\* the formats handed to the decoders
Formats ==
    [date_format |-> date_format[1], decimal_sep |-> decimal_sep,
     thousands_sep |-> thousands_sep]

\* one pass of "for chunk in chunks"
\* the end of the loop body: the placement of the decoded item
Placed(placed) ==
    /\ pos' = pos + 1
    /\ qif_obj' = placed.qif
    /\ last_account' = placed.cursor
    /\ UNCHANGED <<pc, raised>>

\* the loop body from the call of the decoder on, r being what the decoder
\* returned or raised
Dispatched(type, header, r) ==
    /\ last_type' = type
    /\ transactions_header' = header
    /\ IF ~IsOk(r)
       THEN Raised(r) /\ UNCHANGED <<pos, last_account, qif_obj>>
       ELSE Placed(Place(qif_obj, type, last_account, ValOf(r), header))

\* the loop body for one chunk, type and header being last_type and
\* transactions_header after the header tests
LoopBody(chunk, type, header) ==
    IF ChunkIsEmpty(chunk)
    THEN /\ pos' = pos + 1
         /\ UNCHANGED <<pc, raised, last_type, last_account,
                        transactions_header, qif_obj>>
    ELSE IF HeaderRejected(chunk)
    THEN /\ Raised(Raise("QifParserException", "Header not recognized"))
         /\ UNCHANGED <<pos, last_type, last_account,
                        transactions_header, qif_obj>>
    ELSE IF type = "None"
    THEN /\ Raised(Raise("KeyError", "None"))
         /\ UNCHANGED <<pos, last_type, last_account,
                        transactions_header, qif_obj>>
    ELSE Dispatched(type, header, Decode(type, chunk, Formats))

ParseChunk ==
    /\ pc = "chunks"
    /\ pos <= Len(chunks)
    /\ LoopBody(chunks[pos], NextType(chunks[pos][1], last_type),
                NextHeader(chunks[pos][1], transactions_header))
    /\ UNCHANGED <<data, date_format, num_sep, decimal_sep, thousands_sep,
                   iter_next, chunks, returned>>
    /\ UNCHANGED <<date_vars, number_vars, decoder_vars, call_vars>>

\* return qif_obj
ParseReturn ==
    /\ pc = "chunks"
    /\ pos > Len(chunks)
    /\ pc' = "returned"
    /\ returned' = <<qif_obj>>
    /\ UNCHANGED <<data, date_format, num_sep, decimal_sep, thousands_sep,
                   iter_next, chunks, pos, last_type, last_account,
                   transactions_header, qif_obj, raised>>
    /\ UNCHANGED <<date_vars, number_vars, decoder_vars, call_vars>>

Init == ParseInit /\ DateIdle /\ NumberIdle /\ DecoderIdle /\ CallIdle

Next == Read \/ ResolveDate \/ ResolveNumber \/ ParseChunk \/ ParseReturn

Spec == Init /\ [][Next]_vars

(***************************************************************************)
(* guessDateFormat on its own: one step per sample                         *)
(***************************************************************************)
\* the date samples of the model: 23/10/2013 (day first only);
\*   10/13/2013 (month first only);
\*   01/02/2016 (day first or month first);
\*   2016/01/02 (year first only);
\*   1/2'16 (an apostrophe before a two-digit year);
\*   01/02/03 (every order);
\*   13/13/2013 (no order);
\*   Food (not a date);
\*   1 (one character)
DateSamplePool ==
    { <<"2", "3", "/", "1", "0", "/", "2", "0", "1", "3">>,
      <<"1", "0", "/", "1", "3", "/", "2", "0", "1", "3">>,
      <<"0", "1", "/", "0", "2", "/", "2", "0", "1", "6">>,
      <<"2", "0", "1", "6", "/", "0", "1", "/", "0", "2">>,
      <<"1", "/", "2", "'", "1", "6">>,
      <<"0", "1", "/", "0", "2", "/", "0", "3">>,
      <<"1", "3", "/", "1", "3", "/", "2", "0", "1", "3">>,
      <<"F", "o", "o", "d">>,
      <<"1">> }

\* the most samples of a modelled call
MaxSamples == 3

DateInit ==
    /\ date_samples \in SeqsUpTo(DateSamplePool, MaxSamples)
    /\ date_possible = possible_date_formats
    /\ date_pos = 1
    /\ date_result = <<>>

\* one pass of "for sample in samples"
DateSample ==
    /\ date_result = <<>>
    /\ date_pos <= Len(date_samples)
    /\ IF DateSampleEscapes(date_possible, date_samples[date_pos])
       THEN /\ date_result' = <<Raise("IndexError", "string index out of range")>>
            /\ UNCHANGED <<date_possible, date_pos>>
       ELSE /\ date_possible' = DateSurvivors(date_possible, date_samples[date_pos])
            /\ date_pos' = date_pos + 1
            /\ UNCHANGED date_result
    /\ UNCHANGED <<date_samples, parse_vars, number_vars, decoder_vars,
                   iter_next, call_vars>>

\* the end of guessDateFormat
DateDecide ==
    /\ date_result = <<>>
    /\ date_pos > Len(date_samples)
    /\ date_result' = <<DateDecision(date_possible)>>
    /\ UNCHANGED <<date_samples, date_possible, date_pos, parse_vars,
                   number_vars, decoder_vars, iter_next, call_vars>>

\* parse is not running
ParseIdle ==
    /\ data = << <<>> >>
    /\ date_format = <<>>
    /\ num_sep = <<>>
    /\ decimal_sep = ""
    /\ thousands_sep = ""
    /\ pc = "idle"
    /\ chunks = <<>>
    /\ pos = 0
    /\ last_type = "None"
    /\ last_account = 0
    /\ transactions_header = <<>>
    /\ qif_obj = Qif
    /\ raised = <<>>
    /\ returned = <<>>

InitDate ==
    DateInit /\ ParseIdle /\ NumberIdle /\ DecoderIdle /\ CallIdle /\ iter_next = TRUE

NextDate == DateSample \/ DateDecide

SpecDate == InitDate /\ [][NextDate]_vars

(***************************************************************************)
(* guessNumberFormat on its own: one step per sample                       *)
(***************************************************************************)
\* the amount samples of the model: -1234.56 (('.', '') only);
\*   -1,234.56 (('.', ',') only);
\*   1.234,56 ((',', '.') only);
\*   1.5 (('.', '') and ('.', ','));
\*   1,5 ((',', '') and (',', '.'));
\*   1.234 (three candidates, two decimal separators);
\*   1234 (both candidates without thousands separator);
\*   12a (no candidate)
NumberSamplePool ==
    { <<"-", "1", "2", "3", "4", ".", "5", "6">>,
      <<"-", "1", ",", "2", "3", "4", ".", "5", "6">>,
      <<"1", ".", "2", "3", "4", ",", "5", "6">>,
      <<"1", ".", "5">>,
      <<"1", ",", "5">>,
      <<"1", ".", "2", "3", "4">>,
      <<"1", "2", "3", "4">>,
      <<"1", "2", "a">> }

NumberInit ==
    /\ number_samples \in SeqsUpTo(NumberSamplePool, MaxSamples)
    /\ number_possible = possible_num_sep
    /\ number_pos = 1
    /\ number_result = <<>>

\* one pass of "for sample in samples"
NumberSample ==
    /\ number_result = <<>>
    /\ number_pos <= Len(number_samples)
    /\ number_possible' = NumberSurvivors(number_possible, number_samples[number_pos])
    /\ number_pos' = number_pos + 1
    /\ UNCHANGED <<number_samples, number_result, parse_vars, date_vars,
                   decoder_vars, iter_next, call_vars>>

\* the end of guessNumberFormat
NumberDecide ==
    /\ number_result = <<>>
    /\ number_pos > Len(number_samples)
    /\ number_result' = <<NumberDecision(number_possible, iter_next)>>
    /\ UNCHANGED <<number_samples, number_possible, number_pos, parse_vars,
                   date_vars, decoder_vars, iter_next, call_vars>>

InitNumber ==
    NumberInit /\ ParseIdle /\ DateIdle /\ DecoderIdle /\ CallIdle /\ iter_next \in BOOLEAN

NextNumber == NumberSample \/ NumberDecide

SpecNumber == InitNumber /\ [][NextNumber]_vars

(***************************************************************************)
(* A decoder on its own: one step per line of the chunk                    *)
(***************************************************************************)
\* the lines of the model: Sfood (a split with a category);
\*   S[Cc] (a split with a transfer account);
\*   $12.34 (an amount);
\*   $-31.00 (an amount that ends in 0);
\*   Lfood (a category);
\*   L[Cc] (a transfer account);
\*   Avia (an address line);
\*   Ememo (a split memo);
\*   Xjunk (a tag no decoder knows);
\*   Nname (a number, an action or a name)
LinePool ==
    { <<"S", "f", "o", "o", "d">>,
      <<"S", "[", "C", "c", "]">>,
      <<"$", "1", "2", ".", "3", "4">>,
      <<"$", "-", "3", "1", ".", "0", "0">>,
      <<"L", "f", "o", "o", "d">>,
      <<"L", "[", "C", "c", "]">>,
      <<"A", "v", "i", "a">>,
      <<"E", "m", "e", "m", "o">>,
      <<"X", "j", "u", "n", "k">>,
      <<"N", "n", "a", "m", "e">> }

\* the most lines of a modelled chunk
MaxLines == 4

SectionKinds ==
    {"category", "account", "transaction", "investment", "class", "memorized"}

DecoderInit ==
    /\ decoder \in SectionKinds
    /\ lines \in SeqsUpTo(LinePool, MaxLines)
    /\ formats = [date_format |-> "dmy", decimal_sep |-> ".", thousands_sep |-> ""]
    /\ line_pos = 1
    /\ curItem = NewItem(decoder)
    /\ decoder_result = <<>>

\* the outcome of one pass of "for line in lines"
LineDecoded(r) ==
    IF IsOk(r)
    THEN /\ curItem' = ValOf(r)
         /\ line_pos' = line_pos + 1
         /\ UNCHANGED decoder_result
    ELSE /\ decoder_result' = <<r>>
         /\ UNCHANGED <<curItem, line_pos>>

\* one pass of "for line in lines"
DecodeStep ==
    /\ decoder_result = <<>>
    /\ line_pos <= Len(lines)
    /\ LineDecoded(DecodeLine(decoder, curItem, lines[line_pos], formats))
    /\ UNCHANGED <<decoder, lines, formats, parse_vars, date_vars, number_vars,
                   iter_next, call_vars>>

\* return curItem
DecodeReturn ==
    /\ decoder_result = <<>>
    /\ line_pos > Len(lines)
    /\ decoder_result' = <<Ok(curItem)>>
    /\ UNCHANGED <<decoder, lines, formats, line_pos, curItem, parse_vars,
                   date_vars, number_vars, iter_next, call_vars>>

InitDecoder ==
    DecoderInit /\ ParseIdle /\ DateIdle /\ NumberIdle /\ CallIdle /\ iter_next = TRUE

NextDecoder == DecodeStep \/ DecodeReturn

SpecDecoder == InitDecoder /\ [][NextDecoder]_vars

(***************************************************************************)
(* parseQifNumber and parseQifDateTime called on their own                 *)
(* (specification SpecCall)                                                *)
(***************************************************************************)
\* the longest generated amount text and date text
MaxNumberLen == 4

MaxDateLen == 5

\* the amount texts: those of the tests, of signed and of grouped amounts,
\* and every text of at most MaxNumberLen of the characters below
NumberTexts ==
    { <<"-", "1", "2", "3", "4", ".", "5", "6">>,
      <<"-", "1", ",", "2", "3", "4", ".", "5", "6">>,
      <<"1", ".", "2", "3", "4", ",", "5", "6">>,
      <<"-", "0", ".", "5", "0">>,
      <<"1", "2", "3", ",", "4", "5", "6", ".", "0", "0">>,
      <<"-", "1", "2", "3", ",", "4", "5", "6", ".", "0", "0">>,
      <<"1", "2", "3", "4", ",", "5", "6", "7">>,
      <<"1", "a", ",", "2", "3", "4">>,
      <<"1", ".", "x">> }
    \cup SeqsUpTo({"1", "0", "-", ".", ","}, MaxNumberLen)

\* the (decimal_sep, thousands_sep) arguments
SeparatorPairs ==
    {<<".", "">>, <<".", ",">>, <<",", "">>, <<",", ".">>, <<".", ".">>}

\* the date texts: those of the tests and every text of at most MaxDateLen
\* of the characters below, followed or not by a year of two digits
DateTexts ==
    { <<"2", "3", "/", "1", "0", "/", "2", "0", "1", "3">>,
      <<"1", "0", "/", "1", "3", "/", "2", "0", "1", "3">>,
      <<"2", "0", "1", "6", "/", "0", "1", "/", "0", "2">>,
      <<"0", "2", "/", "0", "2", "'", "2", "0", "1", "6">>,
      <<"1", "/", "2", "'", "1", "6">>,
      <<"1", "/", "2", "'", "3">>,
      <<"2", "9", ".", "0", "2", ".", "1", "3">>,
      <<"1", "/", "2", "/", "3", "/", "4">>,
      <<" ", "1", "/", "2", "/", "1", "3", " ">>,
      <<"a", "/", "2", "/", "1", "3">> }
    \cup SeqsUpTo({"1", "/", "'"}, MaxDateLen)
    \cup {t \o <<"1", "3">> : t \in SeqsUpTo({"1", "/", "'"}, MaxDateLen)}

DateFormats == {"dmy", "mdy", "ymd", "xyz"}

CallInit ==
    /\ callee \in {"parseQifNumber", "parseQifDateTime"}
    /\ call_args \in
         IF callee = "parseQifNumber"
         THEN {<<t, p[1], p[2]>> : t \in NumberTexts, p \in SeparatorPairs}
         ELSE {<<t, f>> : t \in DateTexts, f \in DateFormats}
    /\ call_result = <<>>

\* a call of parseQifNumber(qnumber, decimal_sep, thousands_sep)
CallParseQifNumber ==
    /\ callee = "parseQifNumber"
    /\ call_result = <<>>
    /\ call_result' = <<parseQifNumber(call_args[1], call_args[2], call_args[3])>>
    /\ UNCHANGED <<callee, call_args, parse_vars, date_vars, number_vars,
                   decoder_vars, iter_next>>

\* a call of parseQifDateTime(qdate, date_format)
CallParseQifDateTime ==
    /\ callee = "parseQifDateTime"
    /\ call_result = <<>>
    /\ call_result' = <<parseQifDateTime(call_args[1], call_args[2])>>
    /\ UNCHANGED <<callee, call_args, parse_vars, date_vars, number_vars,
                   decoder_vars, iter_next>>

InitCall ==
    CallInit /\ ParseIdle /\ DateIdle /\ NumberIdle /\ DecoderIdle /\ iter_next = TRUE

NextCall == CallParseQifNumber \/ CallParseQifDateTime

SpecCall == InitCall /\ [][NextCall]_vars

(***************************************************************************)
(* Properties of the chunk driver (specification Spec)                     *)
(***************************************************************************)
RECURSIVE SumLen(_)
SumLen(accounts) ==
    IF accounts = <<>> THEN 0
    ELSE Len(Head(accounts).transactions) + SumLen(Tail(accounts))

\* the number of records a container holds
RecordCount(q) ==
    Len(q.accounts) + Len(q.transactions) + Len(q.categories) + Len(q.classes)
    + SumLen(q.accounts)

\* the loop of parse is at a chunk that is not empty
AtChunk == pc = "chunks" /\ pos <= Len(chunks) /\ ~ChunkIsEmpty(chunks[pos])

\* a line that begins with '!' and is no recognized header
UnrecognizedHeaderLine(line) == StartsWith(line, <<"!">>) /\ HeaderKind(line) = ""

RECURSIVE EstablishedKind(_, _)
\* the section kind of the most recent header chunk among the first k chunks,
\* "None" when none of them has a header
EstablishedKind(cs, k) ==
    IF k = 0 THEN "None"
    ELSE IF HeaderKind(cs[k][1]) /= "" THEN HeaderKind(cs[k][1])
    ELSE EstablishedKind(cs, k - 1)

\* seq is old with one element appended, whose item is item
AppendedItem(old, seq, item) ==
    /\ Len(seq) = Len(old) + 1
    /\ SubSeq(seq, 1, Len(old)) = old
    /\ seq[Len(seq)].item = item

\* C1: a record decoded in a transaction, investment or memorized section
\* is appended to the most recently decoded account when an account has been
\* decoded before it in the parse, whatever sections lie between, and to the
\* top-level transaction list otherwise; nothing else of the container
\* changes.
C1_AttachedToLastAccount ==
    [][(AtChunk /\ pos' = pos + 1 /\ last_type' \in TransactionKinds) =>
        LET n == Len(qif_obj.accounts)
            item == ValOf(Decode(last_type', chunks[pos], Formats))
        IN  /\ qif_obj'.categories = qif_obj.categories
            /\ qif_obj'.classes = qif_obj.classes
            /\ Len(qif_obj'.accounts) = n
            /\ IF n > 0
               THEN /\ qif_obj'.transactions = qif_obj.transactions
                    /\ \A a \in 1..(n - 1) : qif_obj'.accounts[a] = qif_obj.accounts[a]
                    /\ qif_obj'.accounts[n].account = qif_obj.accounts[n].account
                    /\ AppendedItem(qif_obj.accounts[n].transactions,
                                    qif_obj'.accounts[n].transactions, item)
               ELSE AppendedItem(qif_obj.transactions, qif_obj'.transactions, item)
      ]_vars

\* C1's case: a transaction attached to the account although a category
\* section lies between the account and the transaction
C1_Witness ==
    /\ pc = "returned"
    /\ data = TextOf(<<AccountChunk, CatChunk, BankChunk>>)
    /\ Len(qif_obj.accounts[1].transactions) = 1
    /\ qif_obj.transactions = <<>>

\* C2: every non-empty chunk (whose first line is not an unrecognized header)
\* is decoded by the decoder of the section kind of the most recent header
\* chunk up to it and yields exactly one record, also when no chunk before it
\* had a header; the only other outcome is that this decoder raised.
C2_EveryChunkYieldsOneRecord ==
    [][(AtChunk /\ ~UnrecognizedHeaderLine(chunks[pos][1])) =>
        LET K == EstablishedKind(chunks, pos)
        IN  \/ /\ pos' = pos + 1
               /\ RecordCount(qif_obj') = RecordCount(qif_obj) + 1
            \/ /\ K /= "None"
               /\ ~IsOk(Decode(K, chunks[pos], Formats))
               /\ pc' = "raised"
               /\ raised' = <<Decode(K, chunks[pos], Formats)>>
      ]_vars

\* C3 as stated: no parse returns a container for a text with a line that
\* begins with '!' and is no recognized header.
C3_NoUnrecognizedBangLineSurvives ==
    pc = "returned" => \A i \in 1..Len(data) : ~UnrecognizedHeaderLine(data[i])

\* C3, amended: when the loop of parse is at a chunk whose first line begins
\* with '!' and is no recognized header, parse fails with the
\* unrecognized-header error and returns nothing, however many records were
\* decoded before.
C3_UnrecognizedFirstLineRejected ==
    [][(AtChunk /\ UnrecognizedHeaderLine(chunks[pos][1])) =>
        /\ pc' = "raised"
        /\ raised' = <<Raise("QifParserException", "Header not recognized")>>
        /\ returned' = <<>>
        /\ qif_obj' = qif_obj
      ]_vars

\* C3's case: the unrecognized-header error after records were decoded
C3_Witness ==
    /\ pc = "raised"
    /\ raised = <<Raise("QifParserException", "Header not recognized")>>
    /\ RecordCount(qif_obj) >= 2
    /\ UnrecognizedHeaderLine(chunks[pos][1])

\* the values of the 'D' lines of a chunk
DateLinesOf(chunk) ==
    LET ds == SelectSeq(chunk, LAMBDA l : l /= <<>> /\ l[1] = "D")
    IN  [i \in 1..Len(ds) |-> Tail1(ds[i])]

RECURSIVE DateFields(_, _)
\* the date fields of the first k chunks, in input order: the 'D' lines of
\* the chunks decoded as transactions or investments
DateFields(cs, k) ==
    IF k = 0 THEN <<>>
    ELSE DateFields(cs, k - 1)
         \o (IF EstablishedKind(cs, k) \in {"transaction", "investment"}
             THEN DateLinesOf(cs[k]) ELSE <<>>)

\* the date fields of a text
DateFieldsOfText(text) ==
    DateFields(SplitChunks(text, 1, <<>>, FALSE),
               Len(SplitChunks(text, 1, <<>>, FALSE)))

\* every chunk of the text that is not empty lies in a section: no chunk
\* comes before the first header and no first line is an unrecognized header
EveryChunkInSection(text) ==
    LET cs == SplitChunks(text, 1, <<>>, FALSE)
    IN  \A k \in 1..Len(cs) :
            ChunkIsEmpty(cs[k]) \/ (/\ EstablishedKind(cs, k) /= "None"
                                    /\ ~UnrecognizedHeaderLine(cs[k][1]))

\* C12: when parse infers the date format, the samples it hands to
\* guessDateFormat are the date fields of the input in input order, those of
\* account sections left out: every 'D' line of a transaction or investment
\* chunk and no other line, such as the 'D' description line of a category
\* or class record.  Stated for the texts whose chunks all lie in a section.
C12_DateSamplesAreDateFields ==
    (pc = "date" /\ date_format = <<>> /\ EveryChunkInSection(data)) =>
        getDateSamples(data) = DateFieldsOfText(data)

\* both formats in use are the inferred ones: no num_sep was given, and
\* date_format is what guessDateFormat returns for the text (a date_format
\* argument equal to it makes no difference to the decoding pass)
FormatsInferred ==
    /\ num_sep = <<>>
    /\ date_format = <<"dmy">> \/ date_format = <<"mdy">> \/ date_format = <<"ymd">>
    /\ guessDateFormat(getDateSamples(data)) = Ok(date_format[1])

\* C14: when both formats were inferred from the text, the decoding pass
\* raises no QifParserInvalidDate and no QifParserInvalidNumber: every date
\* and number a decoder parses was validated during inference.
C14_DecodingAfterInference ==
    [][(pc = "chunks" /\ FormatsInferred /\ pc' = "raised") =>
        raised'[1].exc \notin {"QifParserInvalidDate", "QifParserInvalidNumber"}
      ]_vars

\* the exceptions of the documented error kinds: QifParserException (empty
\* input, unrecognized header), QifParserInvalidDate, QifParserInvalidNumber
DocumentedErrors ==
    {"QifParserException", "QifParserInvalidDate", "QifParserInvalidNumber"}

\* C8: parse returns the container or fails with one of the documented error
\* kinds; no other exception leaves it.
C8_OnlyDocumentedErrors ==
    pc = "raised" => raised[1].exc \in DocumentedErrors

(***************************************************************************)
(* Properties of guessDateFormat (specification SpecDate)                  *)
(***************************************************************************)
\* the orders under which every sample constructs a valid calendar date
OrdersParsingAll(samples) ==
    {f \in {"dmy", "mdy", "ymd"} :
        \A i \in 1..Len(samples) : IsOk(parseQifDateTime(samples[i], f))}

\* what C4 says guessDateFormat does with the samples
C4_Expected(samples) ==
    IF Cardinality(OrdersParsingAll(samples)) = 1
    THEN Ok(CHOOSE f \in OrdersParsingAll(samples) : TRUE)
    ELSE IF OrdersParsingAll(samples) = {}
    THEN Raise("QifParserInvalidDate", "Inconsistent or invalid date values")
    ELSE Raise("QifParserInvalidDate",
               "It is not possible to guess the date format: please specify")

\* C4: guessDateFormat returns the order f exactly when f is the only order
\* under which every sample is a valid date, raises the inconsistent-dates
\* error when there is no such order and the ambiguous-format error when
\* there are several.
C4_GuessDateFormat ==
    date_result /= <<>> => date_result[1] = C4_Expected(date_samples)

(***************************************************************************)
(* Properties of guessNumberFormat (specification SpecNumber)              *)
(***************************************************************************)
\* the candidate pairs that parse every sample
PairsParsingAll(samples) ==
    {p \in {<<".", "">>, <<".", ",">>, <<",", "">>, <<",", ".">>} :
        \A i \in 1..Len(samples) : IsOk(parseQifNumber(samples[i], p[1], p[2]))}

\* what C5 says guessNumberFormat does with the survivors S
C5_Expected(S) ==
    LET decimals == {p[1] : p \in S}
        thousands == {p[2] : p \in S} \ {""}
    IN  IF S = {}
        THEN Raise("QifParserInvalidNumber", "Inconsistent or invalid number values")
        ELSE IF Cardinality(S) = 1 THEN Ok(CHOOSE p \in S : TRUE)
        ELSE IF Cardinality(decimals) = 1 /\ Cardinality(thousands) = 1
        THEN Ok(<<CHOOSE d \in decimals : TRUE, CHOOSE t \in thousands : TRUE>>)
        ELSE Raise("QifParserInvalidNumber",
                   "It is not possible to guess the number format: please specify")

\* C5: guessNumberFormat raises the inconsistent-numbers error when no
\* candidate pair parses every sample, returns the survivor when there is
\* one, returns (decimal, thousands) when the survivors share one decimal
\* separator and have one non-empty thousands separator, and raises the
\* ambiguity error otherwise.
C5_GuessNumberFormat ==
    number_result /= <<>> =>
        number_result[1] = C5_Expected(PairsParsingAll(number_samples))

(***************************************************************************)
(* Properties of the record decoders (specification SpecDecoder)           *)
(***************************************************************************)
\* the first characters of the lines
TagsOf(ls) == [i \in 1..Len(ls) |-> ls[i][1]]

\* the amount of a '$' line as C6 reads it: the full text after the tag
FullAmount(line) ==
    parseQifNumber(Tail1(line), formats.decimal_sep, formats.thousands_sep)

\* C6: a transaction chunk whose tag lines are S, $, S, $, with amounts
\* valid under the number format, yields exactly two splits in input order,
\* the amount of each being the number after the '$' tag of the '$' line
\* that follows its 'S' line.
C6_SplitAmounts ==
    (/\ decoder = "transaction"
     /\ decoder_result /= <<>>
     /\ Len(lines) = 4
     /\ TagsOf(lines) = <<"S", "$", "S", "$">>
     /\ IsOk(FullAmount(lines[2]))
     /\ IsOk(FullAmount(lines[4])))
    => /\ IsOk(decoder_result[1])
       /\ Len(ValOf(decoder_result[1]).splits) = 2
       /\ ValOf(decoder_result[1]).splits[1].amount = <<ValOf(FullAmount(lines[2]))>>
       /\ ValOf(decoder_result[1]).splits[2].amount = <<ValOf(FullAmount(lines[4]))>>

\* at most one of category and to_account is set
OneTarget(r) == r.category = <<>> \/ r.to_account = <<>>

\* C7: in a Transaction, a MemorizedTransaction and each of their splits, at
\* most one of category and to_account is set, whatever 'L' and 'S' lines
\* the chunk has.
C7_CategoryOrTransfer ==
    decoder \in {"transaction", "memorized"} =>
        /\ OneTarget(curItem)
        /\ \A k \in 1..Len(curItem.splits) : OneTarget(curItem.splits[k])

\* the lines of the chunk without those of unknown tag
KnownLines(kind, ls) == SelectSeq(ls, LAMBDA l : ~UnknownLine(kind, l))

\* C9: in every decoder a line of unknown tag leaves the record unchanged
\* and does not end the decoder, which goes on with the next line; what the
\* decoder returns or raises is what it does on the chunk without the
\* lines of unknown tag.
C9_UnknownLinesSkipped ==
    /\ [][(decoder_result = <<>> /\ line_pos <= Len(lines)
           /\ UnknownLine(decoder, lines[line_pos])) =>
            /\ curItem' = curItem
            /\ decoder_result' = <<>>
            /\ line_pos' = line_pos + 1
         ]_vars
    /\ [](decoder_result /= <<>> =>
            decoder_result[1] = Decode(decoder, KnownLines(decoder, lines), formats))

\* C9's case: a decoder returned a record filled by the lines around a line
\* of unknown tag
C9_Witness ==
    /\ decoder = "transaction"
    /\ lines = << <<"L", "f", "o", "o", "d">>, <<"X", "j", "u", "n", "k">>,
                  <<"A", "v", "i", "a">> >>
    /\ decoder_result /= <<>>
    /\ IsOk(decoder_result[1])
    /\ ValOf(decoder_result[1]).category = << <<"f", "o", "o", "d">> >>
    /\ ValOf(decoder_result[1]).address = << << <<"v", "i", "a">> >> >>

\* C10: in parseTransaction and parseMemorizedTransaction, once a split is
\* open, an 'E', '$' or 'A' line changes only the last split: the fields of
\* the record itself, its address included, and the earlier splits stay as
\* they are.
C10_SplitDetailLines ==
    [][(/\ decoder \in {"transaction", "memorized"}
        /\ decoder_result = <<>>
        /\ line_pos <= Len(lines)
        /\ lines[line_pos][1] \in {"E", "$", "A"}
        /\ curItem.splits /= <<>>
        /\ line_pos' = line_pos + 1) =>
        /\ [curItem' EXCEPT !.splits = curItem.splits] = curItem
        /\ Len(curItem'.splits) = Len(curItem.splits)
        /\ \A k \in 1..(Len(curItem.splits) - 1) : curItem'.splits[k] = curItem.splits[k]
      ]_vars

(***************************************************************************)
(* Properties of parseQifNumber and parseQifDateTime (specification        *)
(* SpecCall)                                                               *)
(***************************************************************************)
\* the text before the first occurrence of c (all of s when c is absent)
Before(s, c) == SplitOn(s, c)[1]

\* the text after the first occurrence of c
After(s, c) == SubSeq(s, Len(Before(s, c)) + 2, Len(s))

\* the text without its leading sign
Unsigned(s) == IF s /= <<>> /\ s[1] \in {"-", "+"} THEN Tail(s) ELSE s

\* C11's test of the integer part when a thousands separator is given: the
\* leftmost block has at most 3 digits, every other block exactly 3
GroupedInteger(int_part, sep) ==
    LET blocks == SplitOn(Unsigned(int_part), sep)
    IN  /\ IsDigits(blocks[1]) /\ Len(blocks[1]) <= 3
        /\ \A i \in 2..Len(blocks) : IsDigits(blocks[i]) /\ Len(blocks[i]) = 3

\* C11's test of the integer part without thousands separator: a sign or
\* none, then digits
PlainInteger(int_part) == Unsigned(int_part) /= <<>> /\ IsDigits(Unsigned(int_part))

\* whether C11 has parseQifNumber accept the amount text
C11_Accepted(qnum, dsep, tsep) ==
    IF tsep /= "" THEN GroupedInteger(Before(qnum, dsep), tsep)
    ELSE PlainInteger(Before(qnum, dsep))

\* the exact decimal integer-part '.' fractional-part of an accepted text
\* whose fractional part is made of digits
C11_Value(qnum, dsep, tsep) ==
    LET int_part == Before(qnum, dsep)
        digits == SelectSeq(Unsigned(int_part), LAMBDA c : c \in Digits)
        frac == IF Contains(qnum, dsep) THEN After(qnum, dsep) ELSE <<"0">>
        mag == DigitsValue(digits) * Pow10(Len(frac)) + DigitsValue(frac)
    IN  Normalize(IF int_part /= <<>> /\ int_part[1] = "-" THEN 0 - mag ELSE mag,
                  Len(frac))

\* an amount text: a sign or none, a digit, and after the decimal separator,
\* if there is one, nothing but one digit or more
AmountText(qnum, dsep) ==
    /\ Unsigned(qnum) /= <<>> /\ Unsigned(qnum)[1] \in Digits
    /\ Contains(qnum, dsep) =>
          After(qnum, dsep) /= <<>> /\ IsDigits(After(qnum, dsep))

\* C11: with different separators, parseQifNumber accepts an amount text
\* exactly when its integer part, sign aside, is grouped in blocks of at
\* most 3 then exactly 3 digits (thousands separator given) or is a plain
\* integer (no thousands separator), rejects it with QifParserInvalidNumber
\* otherwise, and an accepted text yields the exact decimal integer-part
\* '.' fractional-part, the fractional part being 0 without decimal
\* separator.
C11_ParseQifNumber ==
    (/\ callee = "parseQifNumber"
     /\ call_result /= <<>>
     /\ call_args[2] /= call_args[3]
     /\ AmountText(call_args[1], call_args[2]))
    => IF C11_Accepted(call_args[1], call_args[2], call_args[3])
       THEN /\ IsOk(call_result[1])
            /\ ValOf(call_result[1])
                 = C11_Value(call_args[1], call_args[2], call_args[3])
       ELSE call_result[1].exc = "QifParserInvalidNumber"
\* the character k places before the end of s, "" when s is shorter
FromEnd(s, k) == IF Len(s) >= k THEN s[Len(s) - k + 1] ELSE ""

\* C13's normalization of the apostrophe
C13_Normalized(qdate) ==
    IF FromEnd(qdate, 2) = "'" THEN ReplaceChar(qdate, "'", <<"/", "2", "0", "0">>)
    ELSE IF FromEnd(qdate, 3) = "'" THEN ReplaceChar(qdate, "'", <<"/", "2", "0">>)
    ELSE ReplaceChar(qdate, "'", <<"/">>)

RECURSIVE SkipSeparators(_)
SkipSeparators(s) ==
    IF s /= <<>> /\ s[1] \notin Digits \cup Letters THEN SkipSeparators(Tail(s))
    ELSE s

RECURSIVE C13_Components(_, _)
\* the components between the runs of non-alphanumeric characters of s
C13_Components(s, cur) ==
    IF s = <<>> THEN <<cur>>
    ELSE IF s[1] \in Digits \cup Letters
    THEN C13_Components(Tail(s), Append(cur, s[1]))
    ELSE <<cur>> \o C13_Components(SkipSeparators(s), <<>>)

\* what C13 has parseQifDateTime do with the components n
C13_Expected(n, order) ==
    IF Len(n) /= 3 THEN Raise("QifParserInvalidDate", "Invalid date")
    ELSE DateOfInts(PyInt(n[1]), PyInt(n[2]), PyInt(n[3]), order)

\* C13: for a date text without blanks and with one apostrophe at most,
\* parseQifDateTime makes the one digit after an apostrophe in the
\* second-to-last place the year 200d, the two digits after an apostrophe
\* in the third-to-last place the year 20dd, takes any other apostrophe as
\* a separator, splits the text on the runs of non-alphanumeric characters,
\* and raises QifParserInvalidDate under each of dmy, mdy and ymd when the
\* components are not three.
C13_ParseQifDateTime ==
    (/\ callee = "parseQifDateTime"
     /\ call_result /= <<>>
     /\ call_args[2] \in {"dmy", "mdy", "ymd"}
     /\ ~Contains(call_args[1], " ")
     /\ Len(SplitOn(call_args[1], "'")) <= 2)
    => call_result[1]
         = C13_Expected(C13_Components(C13_Normalized(call_args[1]), <<>>),
                        call_args[2])

====
